---- MODULE Spec2Model ----
(***************************************************************************)
(* Model of plugins/semantic-memory/scripts/embedding.py: a one-shot       *)
(* process that reads a JSON request from stdin, asks the                  *)
(* sentence-transformers backend for embeddings and prints a JSON result   *)
(* on stdout or a JSON error on stderr.                                    *)
(*                                                                         *)
(* Streams are modelled at the level of JSON tokens, Python values as      *)
(* tagged records, floats as fixed-point integers (UnitLen stands for 1.0).*)
(***************************************************************************)
EXTENDS Integers, Sequences, FiniteSets, TLC

VARIABLES
    argv,             \* sys.argv, argv[1] is the program name
    stdin,            \* the tokens on standard input
    backendInstalled, \* whether `import sentence_transformers` can succeed
    pc,               \* position of the process in main()/generate_embeddings()
    model_name,       \* main()'s local model_name
    texts,            \* main()'s local texts
    embeddings,       \* generate_embeddings()'s local embeddings (numpy array)
    result,           \* main()'s local result
    stdout,           \* lines written to sys.stdout
    stderr,           \* lines written to sys.stderr
    exitCode,         \* process exit status, -1 until the process ends
    raised,           \* the exception that ended the run uncaught, "" if none
    importAttempts,   \* executions of the import statement
    loadCalls,        \* model names passed to SentenceTransformer(...)
    encodeCalls       \* arguments of the calls of model.encode(...)

vars == <<argv, stdin, backendInstalled, pc, model_name, texts, embeddings,
          result, stdout, stderr, exitCode, raised, importAttempts,
          loadCalls, encodeCalls>>

-----------------------------------------------------------------------------
(* Bounds of the explored inputs *)

MaxTexts == 2
MaxArgs == 2

TextStrings == {"", "a", "b"}
ArgStrings == {"m2", "x"}

-----------------------------------------------------------------------------
(* Python values *)

PyVal(ty, s, n, items, keys) ==
    [ty |-> ty, s |-> s, n |-> n, items |-> items, keys |-> keys]

None == PyVal("None", "", 0, <<>>, <<>>)
PyStr(s) == PyVal("str", s, 0, <<>>, <<>>)
PyInt(n) == PyVal("int", "", n, <<>>, <<>>)
PyFloat(n) == PyVal("float", "", n, <<>>, <<>>)
PyBool(b) == PyVal("bool", "", IF b THEN 1 ELSE 0, <<>>, <<>>)
PyList(items) == PyVal("list", "", 0, items, <<>>)
PyDict(keys, items) == PyVal("dict", "", 0, items, keys)

\* bool(v): the truth value Python gives a value
Truthy(v) ==
    CASE v.ty = "None" -> FALSE
      [] v.ty = "str" -> v.s /= ""
      [] v.ty \in {"int", "float", "bool"} -> v.n /= 0
      [] v.ty = "list" -> v.items /= <<>>
      [] v.ty = "dict" -> v.keys /= <<>>

HasKey(d, k) == \E i \in DOMAIN d.keys : d.keys[i] = k

\* d.get(k, default)
DictGet(d, k, default) ==
    IF HasKey(d, k)
    THEN d.items[CHOOSE i \in DOMAIN d.keys : d.keys[i] = k]
    ELSE default

\* d[k] = v on a dict under construction (a repeated key keeps its place)
DictSet(d, k, v) ==
    IF HasKey(d, k)
    THEN LET i == CHOOSE j \in DOMAIN d.keys : d.keys[j] = k
         IN PyDict(d.keys, [d.items EXCEPT ![i] = v])
    ELSE PyDict(Append(d.keys, k), Append(d.items, v))

-----------------------------------------------------------------------------
(* JSON text, as a sequence of tokens *)

Tok(t, s, n) == [t |-> t, s |-> s, n |-> n]
P(t) == Tok(t, "", 0)
StrTok(s) == Tok("str", s, 0)
NumTok(n) == Tok("num", "", n)
RealTok(n) == Tok("real", "", n)
Junk(s) == Tok("junk", s, 0)

RECURSIVE DumpsItems(_, _)
RECURSIVE DumpsMembers(_, _, _)
RECURSIVE JsonDumps(_)

\* json.dumps(v)
JsonDumps(v) ==
    CASE v.ty = "None" -> <<P("null")>>
      [] v.ty = "bool" -> IF v.n = 1 THEN <<P("true")>> ELSE <<P("false")>>
      [] v.ty = "int" -> <<NumTok(v.n)>>
      [] v.ty = "float" -> <<RealTok(v.n)>>
      [] v.ty = "str" -> <<StrTok(v.s)>>
      [] v.ty = "list" -> <<P("[")>> \o DumpsItems(v.items, 1) \o <<P("]")>>
      [] v.ty = "dict" -> <<P("{")>> \o DumpsMembers(v.keys, v.items, 1) \o <<P("}")>>

DumpsItems(items, i) ==
    IF i > Len(items) THEN <<>>
    ELSE JsonDumps(items[i])
         \o (IF i < Len(items) THEN <<P(",")>> ELSE <<>>)
         \o DumpsItems(items, i + 1)

DumpsMembers(keys, items, i) ==
    IF i > Len(keys) THEN <<>>
    ELSE <<StrTok(keys[i]), P(":")>> \o JsonDumps(items[i])
         \o (IF i < Len(keys) THEN <<P(",")>> ELSE <<>>)
         \o DumpsMembers(keys, items, i + 1)

ParseOk(v, nxt) == [ok |-> TRUE, v |-> v, nxt |-> nxt]
ParseFail == [ok |-> FALSE, v |-> None, nxt |-> 0]

TokAt(toks, i) == IF i \in DOMAIN toks THEN toks[i] ELSE Junk("<eof>")

RECURSIVE ParseValue(_, _)
RECURSIVE ParseElems(_, _, _)
RECURSIVE ParseMembers(_, _, _)

\* the JSON decoder's value rule, reading toks from position i
ParseValue(toks, i) ==
    LET tok == TokAt(toks, i) IN
    CASE tok.t = "null" -> ParseOk(None, i + 1)
      [] tok.t = "true" -> ParseOk(PyBool(TRUE), i + 1)
      [] tok.t = "false" -> ParseOk(PyBool(FALSE), i + 1)
      [] tok.t = "num" -> ParseOk(PyInt(tok.n), i + 1)
      [] tok.t = "real" -> ParseOk(PyFloat(tok.n), i + 1)
      [] tok.t = "str" -> ParseOk(PyStr(tok.s), i + 1)
      [] tok.t = "[" ->
            IF TokAt(toks, i + 1).t = "]"
            THEN ParseOk(PyList(<<>>), i + 2)
            ELSE ParseElems(toks, i + 1, <<>>)
      [] tok.t = "{" ->
            IF TokAt(toks, i + 1).t = "}"
            THEN ParseOk(PyDict(<<>>, <<>>), i + 2)
            ELSE ParseMembers(toks, i + 1, PyDict(<<>>, <<>>))
      [] OTHER -> ParseFail

ParseElems(toks, i, acc) ==
    LET r == ParseValue(toks, i) IN
    IF ~r.ok THEN ParseFail
    ELSE CASE TokAt(toks, r.nxt).t = "," ->
                    ParseElems(toks, r.nxt + 1, Append(acc, r.v))
           [] TokAt(toks, r.nxt).t = "]" ->
                    ParseOk(PyList(Append(acc, r.v)), r.nxt + 1)
           [] OTHER -> ParseFail

ParseMembers(toks, i, d) ==
    IF TokAt(toks, i).t /= "str" \/ TokAt(toks, i + 1).t /= ":" THEN ParseFail
    ELSE LET r == ParseValue(toks, i + 2) IN
         IF ~r.ok THEN ParseFail
         ELSE CASE TokAt(toks, r.nxt).t = "," ->
                        ParseMembers(toks, r.nxt + 1, DictSet(d, toks[i].s, r.v))
                [] TokAt(toks, r.nxt).t = "}" ->
                        ParseOk(DictSet(d, toks[i].s, r.v), r.nxt + 1)
                [] OTHER -> ParseFail

\* json.loads(toks): ok = FALSE stands for json.JSONDecodeError
JsonLoads(toks) ==
    LET r == ParseValue(toks, 1) IN
    IF r.ok /\ r.nxt = Len(toks) + 1 THEN r ELSE ParseFail

-----------------------------------------------------------------------------
(* The sentence-transformers backend *)

DefaultModel == "all-MiniLM-L6-v2"

\* fixed-point representation of the float 1.0
UnitLen == 15

\* the vector length of a pretrained model
ModelDimension(model) == IF model = DefaultModel THEN 3 ELSE 2

\* the sentence vector a model computes before normalisation
RawEmbed(model, text) ==
    IF ModelDimension(model) = 3
    THEN CASE text = "a" -> <<2, 4, 4>>
           [] text = "b" -> <<0, 6, 8>>
           [] OTHER -> <<16, 0, 12>>
    ELSE CASE text = "a" -> <<6, 8>>
           [] text = "b" -> <<8, 6>>
           [] OTHER -> <<0, 5>>

RECURSIVE SumSq(_, _)
SumSq(v, i) == IF i > Len(v) THEN 0 ELSE v[i] * v[i] + SumSq(v, i + 1)

\* floor of the Euclidean norm
Norm(v) == CHOOSE n \in 0..SumSq(v, 1) : n * n <= SumSq(v, 1) /\ SumSq(v, 1) < (n + 1) * (n + 1)

\* normalize_embeddings=True: scale the vector to unit length
Normalize(v) ==
    IF Norm(v) = 0 THEN v
    ELSE [i \in DOMAIN v |-> (v[i] * UnitLen) \div Norm(v)]

\* the keyword arguments main passes to model.encode
EncodeOptionsRaw ==
    [convert_to_numpy |-> TRUE, normalize_embeddings |-> FALSE, show_progress_bar |-> FALSE]

EncodeOptions ==
    [convert_to_numpy |-> TRUE, normalize_embeddings |-> TRUE, show_progress_bar |-> FALSE]

SentenceVector(model, text, opts) ==
    IF opts.normalize_embeddings
    THEN Normalize(RawEmbed(model, text))
    ELSE RawEmbed(model, text)

\* numpy arrays: shape and the row vectors (a 1-D array has one row)
NoArray == [shape |-> <<>>, rows |-> <<>>]

\* model.encode(sentences, **opts): a list gives a 2-D array with one row
\* per sentence, in input order; a single string gives a 1-D array
BackendEncode(model, sentences, opts) ==
    IF sentences.ty = "list"
    THEN [shape |-> <<Len(sentences.items), ModelDimension(model)>>,
          rows |-> [i \in DOMAIN sentences.items |->
                        SentenceVector(model, sentences.items[i].s, opts)]]
    ELSE [shape |-> <<ModelDimension(model)>>,
          rows |-> <<SentenceVector(model, sentences.s, opts)>>]

FloatList(v) == PyList([i \in DOMAIN v |-> PyFloat(v[i])])

\* embeddings.tolist(), with the rows in reverse order
TolistReversed(arr) ==
    IF Len(arr.shape) > 1
    THEN PyList([i \in DOMAIN arr.rows |-> FloatList(arr.rows[Len(arr.rows) + 1 - i])])
    ELSE FloatList(arr.rows[1])

\* embeddings.tolist()
Tolist(arr) ==
    IF Len(arr.shape) > 1
    THEN PyList([i \in DOMAIN arr.rows |-> FloatList(arr.rows[i])])
    ELSE FloatList(arr.rows[1])

\* int(embeddings.shape[1]) if len(embeddings.shape) > 1 else len(embeddings)
DimensionOf(arr) ==
    IF Len(arr.shape) > 1 THEN arr.shape[2] ELSE arr.shape[1]

-----------------------------------------------------------------------------
(* Output lines *)

JsonLine(v) == [kind |-> "json", toks |-> JsonDumps(v), exc |-> ""]
Traceback(e) == [kind |-> "traceback", toks |-> <<>>, exc |-> e]

ErrorObject(msg) == PyDict(<<"error">>, <<PyStr(msg)>>)

MsgNotInstalled ==
    "sentence-transformers not installed. Install with: pip install sentence-transformers"
MsgInvalidInput == "Invalid input. Expected JSON with 'texts' array."
MsgNoTexts == "No texts provided"

-----------------------------------------------------------------------------
(* Inputs *)

SeqsUpTo(S, n) == UNION {[1..k -> S] : k \in 0..n}

TextLists == {PyList([i \in DOMAIN q |-> PyStr(q[i])]) : q \in SeqsUpTo(TextStrings, MaxTexts)}

TextsValues ==
    TextLists \cup {PyStr("a"), PyStr(""), None, PyInt(0), PyInt(5)}

RequestObjects ==
    {PyDict(<<"texts">>, <<v>>) : v \in TextsValues}
    \cup {PyDict(<<>>, <<>>),
          PyDict(<<"other">>, <<PyStr("a")>>),
          PyDict(<<"other", "texts">>, <<PyInt(1), PyList(<<PyStr("b")>>)>>)}

NonObjects ==
    {PyList(<<>>), PyList(<<PyStr("a")>>), PyStr("texts"), PyInt(1),
     PyBool(TRUE), PyBool(FALSE), None}

Malformed ==
    {<<>>,
     <<Junk("not"), Junk("valid"), Junk("json")>>,
     <<P("{"), StrTok("texts"), P(":"), P("["), StrTok("a")>>,
     <<P("{"), StrTok("texts"), P("}")>>,
     <<P("{"), StrTok("texts"), P(":"), P("["), StrTok("a"), P(","), P("]"), P("}")>>,
     JsonDumps(PyDict(<<"texts">>, <<PyList(<<PyStr("a")>>)>>)) \o <<P("}")>>}

StdinContents ==
    {JsonDumps(v) : v \in RequestObjects \cup NonObjects} \cup Malformed

ArgvValues == {<<"embedding.py">> \o a : a \in SeqsUpTo(ArgStrings, MaxArgs)}

-----------------------------------------------------------------------------
(* The process *)

Init ==
    /\ argv \in ArgvValues
    /\ stdin \in StdinContents
    /\ backendInstalled \in BOOLEAN
    /\ pc = "resolve"
    /\ model_name = ""
    /\ texts = None
    /\ embeddings = NoArray
    /\ result = None
    /\ stdout = <<>>
    /\ stderr = <<>>
    /\ exitCode = -1
    /\ raised = ""
    /\ importAttempts = 0
    /\ loadCalls = <<>>
    /\ encodeCalls = <<>>

\* the error report, ending the process with status 0
ErrorExitZero(msg) ==
    /\ stderr' = Append(stderr, JsonLine(ErrorObject(msg)))
    /\ exitCode' = 0
    /\ pc' = "exited"
    /\ UNCHANGED <<stdout, raised>>

\* print(json.dumps({"error": msg}), file=sys.stderr); sys.exit(1)
ErrorExit(msg) ==
    /\ stderr' = Append(stderr, JsonLine(ErrorObject(msg)))
    /\ exitCode' = 1
    /\ pc' = "exited"
    /\ UNCHANGED <<stdout, raised>>

\* an exception nothing catches: the interpreter prints the traceback on
\* stderr and the process ends with status 1
Uncaught(e) ==
    /\ stderr' = Append(stderr, Traceback(e))
    /\ exitCode' = 1
    /\ raised' = e
    /\ pc' = "exited"
    /\ UNCHANGED stdout

\* the model name, taken from the last command-line argument
ResolvedModelLast(av) == IF Len(av) > 1 THEN av[Len(av)] ELSE DefaultModel

\* sys.argv[1] if len(sys.argv) > 1 else "all-MiniLM-L6-v2"
ResolvedModel(av) == IF Len(av) > 1 THEN av[2] ELSE DefaultModel

ResolveModelName ==
    /\ pc = "resolve"
    /\ model_name' = ResolvedModel(argv)
    /\ pc' = "read"
    /\ UNCHANGED <<argv, stdin, backendInstalled, texts, embeddings, result,
                   stdout, stderr, exitCode, raised, importAttempts,
                   loadCalls, encodeCalls>>

\* the try block of main: json.loads, then input_data.get("texts", [])
ReadInput ==
    /\ pc = "read"
    /\ LET input_data == JsonLoads(stdin) IN
       IF ~input_data.ok
       THEN /\ ErrorExit(MsgInvalidInput)
            /\ UNCHANGED texts
       ELSE IF input_data.v.ty /= "dict"
       THEN /\ Uncaught("AttributeError")
            /\ UNCHANGED texts
       ELSE /\ texts' = DictGet(input_data.v, "texts", PyList(<<>>))
            /\ pc' = "check"
            /\ UNCHANGED <<stdout, stderr, exitCode, raised>>
    /\ UNCHANGED <<argv, stdin, backendInstalled, model_name, embeddings,
                   result, importAttempts, loadCalls, encodeCalls>>

\* the texts check, letting every value through
CheckTextsNoGate ==
    /\ pc = "check"
    /\ pc' = "import"
    /\ UNCHANGED <<stdout, stderr, exitCode, raised>>
    /\ UNCHANGED <<argv, stdin, backendInstalled, model_name, texts,
                   embeddings, result, importAttempts, loadCalls, encodeCalls>>

\* if not texts: error and exit
CheckTexts ==
    /\ pc = "check"
    /\ IF ~Truthy(texts)
       THEN ErrorExit(MsgNoTexts)
       ELSE /\ pc' = "import"
            /\ UNCHANGED <<stdout, stderr, exitCode, raised>>
    /\ UNCHANGED <<argv, stdin, backendInstalled, model_name, texts,
                   embeddings, result, importAttempts, loadCalls, encodeCalls>>

\* the import, going on to load the model whether or not it succeeded
ImportBackendUnchecked ==
    /\ pc = "import"
    /\ importAttempts' = importAttempts + 1
    /\ pc' = "load"
    /\ UNCHANGED <<stdout, stderr, exitCode, raised>>
    /\ UNCHANGED <<argv, stdin, backendInstalled, model_name, texts,
                   embeddings, result, loadCalls, encodeCalls>>

\* from sentence_transformers import SentenceTransformer, except ImportError
ImportBackend ==
    /\ pc = "import"
    /\ importAttempts' = importAttempts + 1
    /\ IF backendInstalled
       THEN /\ pc' = "load"
            /\ UNCHANGED <<stdout, stderr, exitCode, raised>>
       ELSE ErrorExit(MsgNotInstalled)
    /\ UNCHANGED <<argv, stdin, backendInstalled, model_name, texts,
                   embeddings, result, loadCalls, encodeCalls>>

\* the result a handler would print for a model that failed to load
EmptyResult(model) ==
    PyDict(<<"embeddings", "model", "dimension">>,
           <<PyList(<<>>), PyStr(model), PyInt(0)>>)

\* the model load, with a failure swallowed and an empty result printed
LoadModelSwallow ==
    /\ pc = "load"
    /\ loadCalls' = Append(loadCalls, model_name)
    /\ \/ /\ pc' = "encode"
          /\ UNCHANGED <<stdout, stderr, exitCode, raised>>
       \/ /\ stdout' = Append(stdout, JsonLine(EmptyResult(model_name)))
          /\ raised' = "OSError"
          /\ exitCode' = 0
          /\ pc' = "exited"
          /\ UNCHANGED stderr
    /\ UNCHANGED <<argv, stdin, backendInstalled, model_name, texts,
                   embeddings, result, importAttempts, encodeCalls>>

\* model = SentenceTransformer(model_name): succeeds, or raises (unknown
\* model, download or load error) with nothing to catch it
LoadModel ==
    /\ pc = "load"
    /\ loadCalls' = Append(loadCalls, model_name)
    /\ \/ /\ pc' = "encode"
          /\ UNCHANGED <<stdout, stderr, exitCode, raised>>
       \/ Uncaught("OSError")
    /\ UNCHANGED <<argv, stdin, backendInstalled, model_name, texts,
                   embeddings, result, importAttempts, encodeCalls>>

\* embeddings = model.encode(texts, ...): one call with the whole of texts;
\* text input is encoded or the inference raises, other input raises
Encode ==
    /\ pc = "encode"
    /\ encodeCalls' = Append(encodeCalls, [sentences |-> texts, opts |-> EncodeOptions])
    /\ \/ /\ texts.ty \in {"list", "str"}
          /\ embeddings' = BackendEncode(model_name, texts, EncodeOptions)
          /\ pc' = "return"
          /\ UNCHANGED <<stdout, stderr, exitCode, raised>>
       \/ /\ texts.ty \in {"list", "str"}
          /\ Uncaught("RuntimeError")
          /\ UNCHANGED embeddings
       \/ /\ texts.ty \notin {"list", "str"}
          /\ Uncaught("TypeError")
          /\ UNCHANGED embeddings
    /\ UNCHANGED <<argv, stdin, backendInstalled, model_name, texts,
                   result, importAttempts, loadCalls>>

\* the dict generate_embeddings returns
ResultOf(arr, model) ==
    PyDict(<<"embeddings", "model", "dimension">>,
           <<Tolist(arr), PyStr(model), PyInt(DimensionOf(arr))>>)

\* result = generate_embeddings(texts, model_name) returns
ReturnResult ==
    /\ pc = "return"
    /\ result' = ResultOf(embeddings, model_name)
    /\ pc' = "print"
    /\ UNCHANGED <<argv, stdin, backendInstalled, model_name, texts,
                   embeddings, stdout, stderr, exitCode, raised,
                   importAttempts, loadCalls, encodeCalls>>

\* print(json.dumps(result)), then main returns and the process ends
PrintResult ==
    /\ pc = "print"
    /\ stdout' = Append(stdout, JsonLine(result))
    /\ exitCode' = 0
    /\ pc' = "exited"
    /\ UNCHANGED <<argv, stdin, backendInstalled, model_name, texts,
                   embeddings, result, stderr, raised, importAttempts,
                   loadCalls, encodeCalls>>

Next ==
    \/ ResolveModelName
    \/ ReadInput
    \/ CheckTexts
    \/ ImportBackend
    \/ LoadModel
    \/ Encode
    \/ ReturnResult
    \/ PrintResult

Spec == Init /\ [][Next]_vars

-----------------------------------------------------------------------------
(* Vocabulary of the properties *)

Exited == pc = "exited"

StdinNotJson == ~JsonLoads(stdin).ok
StdinNonObject == JsonLoads(stdin).ok /\ JsonLoads(stdin).v.ty /= "dict"
StdinObject == JsonLoads(stdin).ok /\ JsonLoads(stdin).v.ty = "dict"

TextsAbsent == StdinObject /\ ~HasKey(JsonLoads(stdin).v, "texts")

\* the value of the request's texts field (None when there is none)
RequestTexts ==
    IF StdinObject THEN DictGet(JsonLoads(stdin).v, "texts", None) ELSE None

TextsEmptySeq ==
    StdinObject /\ ~TextsAbsent /\ RequestTexts.ty = "list" /\ RequestTexts.items = <<>>

\* a JSON object whose texts is a non-empty sequence of strings
ValidInput ==
    /\ StdinObject /\ ~TextsAbsent
    /\ RequestTexts.ty = "list" /\ RequestTexts.items /= <<>>
    /\ \A i \in DOMAIN RequestTexts.items : RequestTexts.items[i].ty = "str"

\* the line is a JSON object with the single field error, a string
IsErrorLine(line) ==
    /\ line.kind = "json"
    /\ LET r == JsonLoads(line.toks) IN
       /\ r.ok /\ r.v.ty = "dict"
       /\ r.v.keys = <<"error">>
       /\ r.v.items[1].ty = "str"

\* the line is a JSON object with exactly the fields embeddings, model, dimension
IsSuccessLine(line) ==
    /\ line.kind = "json"
    /\ LET r == JsonLoads(line.toks) IN
       /\ r.ok /\ r.v.ty = "dict"
       /\ Len(r.v.keys) = 3
       /\ {r.v.keys[i] : i \in DOMAIN r.v.keys} = {"embeddings", "model", "dimension"}
       /\ DictGet(r.v, "embeddings", None).ty = "list"
       /\ DictGet(r.v, "model", None).ty = "str"
       /\ DictGet(r.v, "dimension", None).ty = "int"

OneErrorOnStderr == Len(stderr) = 1 /\ IsErrorLine(stderr[1])
OneSuccessOnStdout == Len(stdout) = 1 /\ IsSuccessLine(stdout[1])

\* a field of the object printed on stdout
OutField(k) == DictGet(JsonLoads(stdout[1].toks).v, k, None)

Succeeded == Exited /\ exitCode = 0 /\ OneSuccessOnStdout

BackendUntouched == importAttempts = 0 /\ loadCalls = <<>> /\ encodeCalls = <<>>

-----------------------------------------------------------------------------
(* Properties *)

\* C1: a run whose stdin is not valid JSON, or is valid JSON whose top-level
\* value is not an object, ends with exactly one {"error": ...} object on
\* stderr, nothing on stdout and a non-zero exit code.
C1_InvalidInputStructuredError ==
    (Exited /\ (StdinNotJson \/ StdinNonObject))
        => (OneErrorOnStderr /\ stdout = <<>> /\ exitCode /= 0)

\* C2: when stdin is a JSON object whose texts is absent or an empty
\* sequence, the backend is never probed, loaded or invoked, nothing is
\* written to stdout, and the run ends with one error object on stderr and
\* exit code 1, whether or not the backend is installed.
C2_NoTextsRejectedBeforeBackend ==
    (TextsAbsent \/ TextsEmptySeq)
        => /\ BackendUntouched
           /\ stdout = <<>>
           /\ pc \in {"resolve", "read", "check", "exited"}
           /\ Exited => (exitCode = 1 /\ OneErrorOnStderr)

C2_Witness ==
    Exited /\ TextsEmptySeq /\ backendInstalled /\ stderr /= <<>>

\* C3: every finished run has produced either one full success object on
\* stdout (and nothing on stderr) or one full structured error object on
\* stderr (and nothing on stdout).
C3_SuccessOrStructuredError ==
    Exited => \/ (OneSuccessOnStdout /\ stderr = <<>>)
              \/ (OneErrorOnStderr /\ stdout = <<>>)

\* C4: a finished run has exit code 0 exactly when it has written a success
\* object to stdout, and a run with malformed input, missing or empty texts,
\* or an unavailable backend has exit code 1 and nothing on stdout.
C4_ExitCodeIdentifiesOutcome ==
    /\ stdout /= <<>> => (Exited /\ exitCode = 0)
    /\ Exited =>
        /\ exitCode \in {0, 1}
        /\ exitCode = 0 <=> OneSuccessOnStdout
        /\ (~StdinObject \/ TextsAbsent \/ TextsEmptySeq \/ ~backendInstalled)
              => (exitCode = 1 /\ stdout = <<>>)

C4_Witness ==
    Succeeded /\ stderr = <<>>

\* C5: with the backend not importable and a valid input, no model is ever
\* loaded and nothing encoded, nothing is written to stdout, and the run ends
\* with the dependency-missing error object on stderr and exit code 1.
C5_MissingBackendReported ==
    (~backendInstalled /\ ValidInput)
        => /\ loadCalls = <<>> /\ encodeCalls = <<>>
           /\ stdout = <<>>
           /\ pc \notin {"load", "encode", "return", "print"}
           /\ Exited => /\ exitCode = 1
                        /\ OneErrorOnStderr
                        /\ JsonLoads(stderr[1].toks).v.items[1] = PyStr(MsgNotInstalled)

C5_Witness ==
    Exited /\ ~backendInstalled /\ ValidInput /\ Len(argv) > 1 /\ importAttempts = 1

\* C6: for a non-empty list of strings, the success response has one
\* embedding per text, the i-th being the vector the backend computes for
\* texts[i], and the backend was called once, with the whole list.
C6_OneVectorPerTextInOrder ==
    (Succeeded /\ ValidInput)
        => /\ Len(encodeCalls) = 1
           /\ encodeCalls[1].sentences = RequestTexts
           /\ Len(OutField("embeddings").items) = Len(RequestTexts.items)
           /\ \A i \in DOMAIN RequestTexts.items :
                OutField("embeddings").items[i] =
                    FloatList(BackendEncode(loadCalls[1], RequestTexts.items[i],
                                            encodeCalls[1].opts).rows[1])

C6_Witness ==
    /\ Succeeded /\ ValidInput
    /\ Len(RequestTexts.items) = 2
    /\ RequestTexts.items[1] /= RequestTexts.items[2]

\* C7: in every success response every entry of embeddings is a vector
\* whose length is the dimension field, also when texts is a bare string.
C7_EveryEntryHasDimension ==
    Succeeded
        => \A i \in DOMAIN OutField("embeddings").items :
              /\ OutField("embeddings").items[i].ty = "list"
              /\ Len(OutField("embeddings").items[i].items) = OutField("dimension").n

\* C8: the model identifier is the first command-line argument when there is
\* one and "all-MiniLM-L6-v2" otherwise, whatever further arguments follow; it
\* is the name every model load is given and the model field of every
\* success response.
C8_ModelNameResolution ==
    LET expected == IF Len(argv) >= 2 THEN argv[2] ELSE "all-MiniLM-L6-v2" IN
    /\ pc /= "resolve" => model_name = expected
    /\ \A i \in DOMAIN loadCalls : loadCalls[i] = expected
    /\ Succeeded => OutField("model") = PyStr(expected)

C8_Witness ==
    Succeeded /\ Len(argv) = 3 /\ argv[2] /= argv[3]

VectorsOf(emb) ==
    IF emb.items /= <<>> /\ emb.items[1].ty = "list"
    THEN {[i \in DOMAIN emb.items[k].items |-> emb.items[k].items[i].n] : k \in DOMAIN emb.items}
    ELSE {[i \in DOMAIN emb.items |-> emb.items[i].n]}

\* C9: every embedding vector of a success response has Euclidean norm 1
\* (UnitLen in fixed point), and every call of the backend asks for
\* normalised embeddings.
C9_UnitNorm ==
    /\ \A i \in DOMAIN encodeCalls : encodeCalls[i].opts.normalize_embeddings
    /\ Succeeded => \A v \in VectorsOf(OutField("embeddings")) :
                        SumSq(v, 1) = UnitLen * UnitLen

C9_Witness ==
    Succeeded /\ ValidInput /\ Len(RequestTexts.items) = 2

\* C10: stdout is written at most once and only with the complete result
\* generate_embeddings returned; a run in which model loading or inference
\* raised ends with nothing on stdout and a non-zero exit code.
C10_StdoutOnlyAfterCompleteResult ==
    /\ Len(stdout) <= 1
    /\ stdout /= <<>> =>
          /\ raised = ""
          /\ result = ResultOf(embeddings, model_name)
          /\ embeddings /= NoArray
          /\ stdout[1] = JsonLine(result)
    /\ raised \in {"OSError", "RuntimeError", "TypeError"} =>
          (Exited /\ stdout = <<>> /\ exitCode /= 0)

C10_Witness ==
    Exited /\ raised = "RuntimeError" /\ loadCalls /= <<>> /\ ValidInput

====
